---- MODULE Spec2Model ----
(***************************************************************************)
(* Model of the CDK synthesis handler (cdk_synthesis_handler.py): the      *)
(* fallback ladder of safe_cdk_synth_with_fallbacks, the fatal-error test  *)
(* _is_fatal_cdk_error, the classifier classify_cdk_error and the          *)
(* environment detection detect_cdk_environment; of the template cleaner   *)
(* (cdk_template_cleaner.py): clean_template and is_cdk_template; and of   *)
(* the batch loop process_cdk_files (entrypoint.py).                       *)
(*                                                                         *)
(* Diagnostic texts are TLA+ strings; substring search and slicing are     *)
(* computed on the characters, as Python's `in` and s[:n] do.              *)
(***************************************************************************)
EXTENDS Integers, Sequences, FiniteSets, TLC

VARIABLES
    pc,          \* position in safe_cdk_synth_with_fallbacks: "loop" or "done"
    idx,         \* 1-based index of the strategy the for loop is at
    result,      \* the result dictionary being built
    language,    \* the language argument
    cdk_out,     \* the cdk.out directory: NoDir or the set of file names in it
    runs,        \* log of the subprocess.run calls made so far
    error_msg,   \* classifier harness: the text handed to the two functions
    lang,        \* classifier harness: the language argument
    diagnosis,   \* classifier harness: classify_cdk_error's return value
    fatal,       \* classifier harness: _is_fatal_cdk_error's return value
    called,      \* classifier harness: the functions that have returned
    keep_resource_metadata,  \* cleaner: the flag the cleaner was built with
    template,    \* cleaner: the caller's template object (calls may change it)
    original,    \* cleaner: the template as it was handed in
    cleaned,     \* cleaner: clean_template(template)
    recleaned,   \* cleaner: clean_template(cleaned)
    is_cdk,      \* cleaner: is_cdk_template(template)
    cleaned_is_cdk,  \* cleaner: is_cdk_template(cleaned)
    done,        \* cleaner: the calls that have returned
    project,     \* detector: the files of the project root
    env_info,    \* detector: detect_cdk_environment's return value
    detect_pc,   \* detector: where the caller of detect_cdk_environment is
    changed_cdk_files,  \* batch: the argument of process_cdk_files
    cdk_apps,    \* batch: the roots found, in the order they were first seen
    batch_pc,    \* batch: "collect", "process" or "done"
    cursor,      \* batch: index of the file or root the current loop is at
    app_log,     \* batch: what happened to each root processed so far
    sanitized_list  \* batch: the list process_cdk_files returns

vars == <<pc, idx, result, language, cdk_out, runs,
          error_msg, lang, diagnosis, fatal, called,
          keep_resource_metadata, template, original, cleaned, recleaned,
          is_cdk, cleaned_is_cdk, done,
          project, env_info, detect_pc,
          changed_cdk_files, cdk_apps, batch_pc, cursor, app_log, sanitized_list>>

ladderVars == <<pc, idx, result, language, cdk_out, runs>>

classifierVars == <<error_msg, lang, diagnosis, fatal, called>>

cleanerVars == <<keep_resource_metadata, template, original, cleaned,
                 recleaned, is_cdk, cleaned_is_cdk, done>>

detectorVars == <<project, env_info, detect_pc>>

batchVars == <<changed_cdk_files, cdk_apps, batch_pc, cursor, app_log,
               sanitized_list>>

(***************************************************************************)
(* Bounds of the model and constants of the program.                       *)
(***************************************************************************)
\* number of stacks the app can synthesize (template files in cdk.out)
MaxStacks == 1

\* number of parts a classifier input text is concatenated from
MaxParts == 2

\* how far past a truncation point the long diagnostic texts reach
Beyond == 40

\* number of sections a template handed to the cleaner has at most
MaxSections == 2

\* number of entries a Parameters, Conditions or Resources section has at most
MaxEntries == 2

\* number of lines requirements.txt has at most
MaxLines == 2

\* number of changed files handed to process_cdk_files at most
MaxFiles == 3

\* error_msg[:200], the excerpt kept in an attempt record
ExcerptLen == 200

\* error_msg[:300], the excerpt kept in technical_details
DetailsLen == 300

(***************************************************************************)
(* Python values.                                                          *)
(***************************************************************************)
None == [none |-> TRUE]

\* a str object (wrapped, so that it can be compared with None)
Str(s) == [str |-> s]

\* a dict object: its items in insertion order, each a key k and a value v
Dict(items) == [items |-> items]

EmptyDict == Dict(<<>>)

Min(a, b) == IF a < b THEN a ELSE b

\* pattern in s
Contains(s, pattern) ==
    \E i \in 1..(Len(s) - Len(pattern) + 1) :
        SubSeq(s, i, i + Len(pattern) - 1) = pattern

\* s[:n]
Take(s, n) == SubSeq(s, 1, Min(Len(s), n))

\* s.endswith(suffix)
EndsWith(s, suffix) ==
    /\ Len(s) >= Len(suffix)
    /\ SubSeq(s, Len(s) - Len(suffix) + 1, Len(s)) = suffix

LowerChar(c) ==
    CASE c = "A" -> "a" [] c = "B" -> "b" [] c = "C" -> "c" [] c = "D" -> "d"
      [] c = "E" -> "e" [] c = "F" -> "f" [] c = "G" -> "g" [] c = "H" -> "h"
      [] c = "I" -> "i" [] c = "J" -> "j" [] c = "K" -> "k" [] c = "L" -> "l"
      [] c = "M" -> "m" [] c = "N" -> "n" [] c = "O" -> "o" [] c = "P" -> "p"
      [] c = "Q" -> "q" [] c = "R" -> "r" [] c = "S" -> "s" [] c = "T" -> "t"
      [] c = "U" -> "u" [] c = "V" -> "v" [] c = "W" -> "w" [] c = "X" -> "x"
      [] c = "Y" -> "y" [] c = "Z" -> "z" [] OTHER -> c

RECURSIVE Lower(_)
\* s.lower()
Lower(s) ==
    IF Len(s) <= 1
      THEN LowerChar(s)
      ELSE LET half == Len(s) \div 2
           IN  Lower(SubSeq(s, 1, half)) \o Lower(SubSeq(s, half + 1, Len(s)))

RECURSIVE Repeat(_, _)
\* c * n
Repeat(c, n) ==
    IF n <= 0 THEN ""
    ELSE LET half == Repeat(c, n \div 2)
         IN  half \o half \o (IF n % 2 = 1 THEN c ELSE "")

(***************************************************************************)
(* _is_fatal_cdk_error                                                     *)
(***************************************************************************)
fatal_patterns ==
    << "SyntaxError",
       "ModuleNotFoundError",
       "Cannot find module",
       "ENOENT",
       "No such file or directory",
       "cdk.json not found" >>

is_fatal_cdk_error(msg) ==
    \E k \in 1..Len(fatal_patterns) : Contains(msg, fatal_patterns[k])

(***************************************************************************)
(* classify_cdk_error.  The argument is a Python value: None or Str(s).    *)
(***************************************************************************)
DiagUnknown ==
    [ type            |-> "unknown",
      message         |-> "CDK synthesis failed",
      recommendations |-> << "Try running \"cdk synth\" locally to debug" >>,
      user_fixable    |-> TRUE ]

DiagRuntime(s) ==
    [ type              |-> "runtime_compatibility",
      message           |-> "Lambda runtime not supported by AWS",
      technical_details |-> Take(s, DetailsLen),
      recommendations   |->
          << "Add to cdk.json context: \"@aws-cdk/customresources:defaultRuntime\": \"nodejs20.x\"",
             "Or use CDK version 2.100.0 or earlier",
             "AWS Lambda will support nodejs22.x soon" >>,
      user_fixable      |-> TRUE ]

\* mutant: the missing-dependencies diagnosis is flagged as not user-fixable
DiagMissingDeps_NotFixable(s, lng) ==
    [ type              |-> "missing_dependencies",
      message           |-> "Required dependencies not installed",
      technical_details |-> Take(s, DetailsLen),
      recommendations   |-> << "Run: npm install" >>,
      user_fixable      |-> FALSE ]

DiagMissingDeps(s, lng) ==
    LET install_cmd == IF lng = "python" THEN "pip install -r requirements.txt"
                                         ELSE "npm install"
    IN  [ type              |-> "missing_dependencies",
          message           |-> "Required dependencies not installed",
          technical_details |-> Take(s, DetailsLen),
          recommendations   |->
              << "Run: " \o install_cmd,
                 "Ensure all dependencies are listed in your config files",
                 "Check that dependency versions are compatible" >>,
          user_fixable      |-> TRUE ]

\* mutant: the credential diagnosis is flagged as user-fixable
DiagCredentials_Fixable ==
    [ type              |-> "aws_credentials",
      message           |-> "AWS API calls failed (expected in CI/CD)",
      technical_details |-> "Used --no-lookups fallback",
      recommendations   |-> << "This is normal in CI/CD environments" >>,
      user_fixable      |-> TRUE ]

DiagCredentials ==
    [ type              |-> "aws_credentials",
      message           |-> "AWS API calls failed (expected in CI/CD)",
      technical_details |-> "Used --no-lookups fallback",
      recommendations   |->
          << "This is normal in CI/CD environments",
             "Ensure cdk.context.json has cached values",
             "Context values will be used instead of AWS API lookups" >>,
      user_fixable      |-> FALSE ]

DiagTimeout ==
    [ type              |-> "timeout",
      message           |-> "CDK synthesis took longer than 5 minutes",
      technical_details |-> "Synthesis timeout",
      recommendations   |->
          << "Optimize CDK app (reduce complexity)",
             "Split into smaller stacks",
             "Check for infinite loops in synthesis logic" >>,
      user_fixable      |-> TRUE ]

DiagGeneric(s) ==
    [ type              |-> "synthesis_error",
      message           |-> "CDK synthesis failed",
      technical_details |-> Take(s, DetailsLen),
      recommendations   |->
          << "Run \"cdk synth\" locally to reproduce the error",
             "Check CDK code for syntax or configuration errors",
             "Review the error message above for specific guidance" >>,
      user_fixable      |-> TRUE ]

\* mutant: the credential branch is tested before the missing-dependencies one
classify_cdk_error_CredentialsFirst(msg, lng) ==
    IF msg = None \/ msg.str = "" THEN DiagUnknown
    ELSE LET s == msg.str IN
         IF Contains(s, "nodejs22.x") \/ Contains(s, "E3030")
           THEN DiagRuntime(s)
         ELSE IF Contains(s, "not authorized") \/ Contains(s, "AccessDenied")
           THEN DiagCredentials
         ELSE IF Contains(s, "ModuleNotFoundError") \/ Contains(s, "Cannot find module")
           THEN DiagMissingDeps(s, lng)
         ELSE IF Contains(Lower(s), "timeout") \/ Contains(s, "Timeout")
           THEN DiagTimeout
         ELSE DiagGeneric(s)

\* mutant: the missing-dependencies branch is absent
classify_cdk_error_NoMissingDeps(msg, lng) ==
    IF msg = None \/ msg.str = "" THEN DiagUnknown
    ELSE LET s == msg.str IN
         IF Contains(s, "nodejs22.x") \/ Contains(s, "E3030")
           THEN DiagRuntime(s)
         ELSE IF Contains(s, "not authorized") \/ Contains(s, "AccessDenied")
           THEN DiagCredentials
         ELSE IF Contains(Lower(s), "timeout") \/ Contains(s, "Timeout")
           THEN DiagTimeout
         ELSE DiagGeneric(s)

classify_cdk_error(msg, lng) ==
    IF msg = None \/ msg.str = "" THEN DiagUnknown
    ELSE LET s == msg.str IN
         IF Contains(s, "nodejs22.x") \/ Contains(s, "E3030")
           THEN DiagRuntime(s)
         ELSE IF Contains(s, "ModuleNotFoundError") \/ Contains(s, "Cannot find module")
           THEN DiagMissingDeps(s, lng)
         ELSE IF Contains(s, "not authorized") \/ Contains(s, "AccessDenied")
           THEN DiagCredentials
         ELSE IF Contains(Lower(s), "timeout") \/ Contains(s, "Timeout")
           THEN DiagTimeout
         ELSE DiagGeneric(s)

(***************************************************************************)
(* safe_cdk_synth_with_fallbacks                                           *)
(***************************************************************************)
\* mutant: a fifth strategy in the catalogue
strategies_Five ==
    << [name |-> "standard",   command |-> <<"cdk", "synth", "--quiet">>],
       [name |-> "no-lookups", command |-> <<"cdk", "synth", "--no-lookups", "--quiet">>],
       [name |-> "no-version", command |-> <<"cdk", "synth", "--no-version-reporting", "--quiet">>],
       [name |-> "verbose",    command |-> <<"cdk", "synth">>],
       [name |-> "debug",      command |-> <<"cdk", "synth", "--debug">>] >>

\* lines 118-123: the catalogue of strategies, in the order they are tried
strategies ==
    << [name |-> "standard",   command |-> <<"cdk", "synth", "--quiet">>],
       [name |-> "no-lookups", command |-> <<"cdk", "synth", "--no-lookups", "--quiet">>],
       [name |-> "no-version", command |-> <<"cdk", "synth", "--no-version-reporting", "--quiet">>],
       [name |-> "verbose",    command |-> <<"cdk", "synth">>] >>

InitialResult ==
    [ success       |-> FALSE,
      strategy_used |-> None,
      templates     |-> {},
      warnings      |-> <<>>,
      error         |-> None,
      attempts      |-> <<>> ]

\* attempt_result as created at the top of the loop body
NewAttempt(strategy_name) ==
    [strategy |-> strategy_name, success |-> FALSE, error |-> None]

\* cdk.out as an attempt finds it after a zero exit: absent, or a directory
\* with these files.  The code reads cdk.out only after a zero exit, and a run
\* that exits zero may have written anything there, so the runs that fail
\* leave the variable alone.
CdkOutFiles ==
    {"manifest.json"} \cup {"Stack" \o Repeat("A", i) \o ".template.json" : i \in 1..MaxStacks}

NoDir == [exists |-> FALSE, files |-> {}]

CdkOutStates == {NoDir} \cup {[exists |-> TRUE, files |-> F] : F \in SUBSET CdkOutFiles}

\* list(cdk_out.glob('*.template.json'))
glob_templates(dir) == {f \in dir.files : EndsWith(f, ".template.json")}

\* mutant: the `if templates:` test is forgotten
HasArtifacts_DirOnly(dir) == dir.exists

\* cdk_out.exists() and the glob found at least one template
HasArtifacts(dir) == dir.exists /\ glob_templates(dir) # {}

\* mutant: the fallback warning is added whatever the strategy
FallbackWarnings_Always(strategy_name) ==
    << "Used '" \o strategy_name \o "' strategy (standard synth failed)" >>

\* the warning added when the strategy that worked is not the standard one
FallbackWarnings(strategy_name) ==
    IF strategy_name # "standard"
      THEN << "Used '" \o strategy_name \o "' strategy (standard synth failed)" >>
      ELSE << >>

\* the result returned from the success branch
SuccessResult(res, strategy_name, templates) ==
    [res EXCEPT !.success       = TRUE,
                !.strategy_used = Str(strategy_name),
                !.templates     = templates,
                !.warnings      = @ \o FallbackWarnings(strategy_name),
                !.attempts      = Append(@, [NewAttempt(strategy_name) EXCEPT !.success = TRUE])]

\* attempt_result['error'] = error_msg[:200]
FailedAttempt(strategy_name, stderr) ==
    [NewAttempt(strategy_name) EXCEPT !.error = Str(Take(stderr, ExcerptLen))]

\* the result returned from the fatal branch
FatalResult(res, strategy_name, stderr, lng) ==
    [res EXCEPT !.error    = classify_cdk_error(Str(stderr), lng),
                !.attempts = Append(@, FailedAttempt(strategy_name, stderr))]

\* result['attempts'].append(attempt_result) at the bottom of the loop body
RecordAttempt(res, attempt) == [res EXCEPT !.attempts = Append(@, attempt)]

\* mutant: the loop's exit returns without classifying
ExhaustedResult_NoDiagnosis(res, lng) == res

\* the result returned after the loop
ExhaustedResult(res, lng) ==
    LET last_error == IF res.attempts # <<>>
                        THEN res.attempts[Len(res.attempts)].error
                        ELSE Str("Unknown error")
    IN  [res EXCEPT !.error = classify_cdk_error(last_error, lng)]

\* one entry of the log of subprocess.run calls: the strategy run, how the
\* call ended, the text it produced (stderr or the exception's text), whether
\* that text holds a fatal marker, and the templates the glob found
Run(strategy_name, outcome, text, templates) ==
    [ strategy  |-> strategy_name,
      outcome   |-> outcome,
      text      |-> text,
      fatal     |-> is_fatal_cdk_error(text),
      templates |-> templates ]

\* texts the synth tool writes to stderr when it exits non-zero
StderrTexts ==
    { "",
      "AccessDenied: no credentials",
      "SyntaxError: invalid syntax",
      "ModuleNotFoundError: No module named aws_cdk",
      "AccessDenied reading context: ENOENT",
      Repeat(".", ExcerptLen + Beyond) \o "AccessDenied",
      Repeat(".", DetailsLen + Beyond) }

\* texts of the exceptions the launch of the tool can raise
ExceptionTexts ==
    { "[Errno 2] No such file or directory: 'cdk'",
      Repeat("e", 2 * DetailsLen + Beyond) }

Languages == {"python", "typescript"}

InLoop == pc = "loop" /\ idx <= Len(strategies)

\* return result
Return(res, i) == [result |-> res, pc |-> "done", idx |-> i]

\* fall to the bottom of the loop body, record the attempt, next strategy
Continue(res, i, attempt) ==
    [result |-> RecordAttempt(res, attempt), pc |-> "loop", idx |-> i + 1]

\* mutant: the success branch lacks its `return result`
ExitZeroStep_NoReturn(res, i, out) ==
    IF HasArtifacts(out)
      THEN Continue(SuccessResult(res, strategies[i].name, glob_templates(out)), i,
                    [NewAttempt(strategies[i].name) EXCEPT !.success = TRUE])
      ELSE Continue(res, i, NewAttempt(strategies[i].name))

\* mutant: a zero exit without artifacts ends the request
ExitZeroStep_StopsWithoutArtifacts(res, i, out) ==
    IF HasArtifacts(out)
      THEN Return(SuccessResult(res, strategies[i].name, glob_templates(out)), i)
      ELSE Return(RecordAttempt(res, NewAttempt(strategies[i].name)), i)

\* the loop body when the process exits with returncode 0
ExitZeroStep(res, i, out) ==
    IF HasArtifacts(out)
      THEN Return(SuccessResult(res, strategies[i].name, glob_templates(out)), i)
      ELSE Continue(res, i, NewAttempt(strategies[i].name))

\* mutant: the fatal check is missing
NonZeroStep_NoFatalCheck(res, i, stderr, lng) ==
    Continue(res, i, FailedAttempt(strategies[i].name, stderr))

\* the loop body when the process exits with another returncode
NonZeroStep(res, i, stderr, lng) ==
    IF is_fatal_cdk_error(stderr)
      THEN Return(FatalResult(res, strategies[i].name, stderr, lng), i)
      ELSE Continue(res, i, FailedAttempt(strategies[i].name, stderr))

\* mutant: a timeout ends the request
TimeoutStep_Stops(res, i) ==
    Return(RecordAttempt(res, [NewAttempt(strategies[i].name)
                                   EXCEPT !.error = Str("Timeout (>5 minutes)")]), i)

\* the loop body when subprocess.run raises TimeoutExpired
TimeoutStep(res, i) ==
    Continue(res, i, [NewAttempt(strategies[i].name) EXCEPT !.error = Str("Timeout (>5 minutes)")])

\* mutant: the except branch skips the append at the bottom of the loop body
ExceptionStep_NoRecord(res, i, text) ==
    [result |-> res, pc |-> "loop", idx |-> i + 1]

\* mutant: the except branch applies the fatal check to the exception's text
ExceptionStep_FatalCheck(res, i, text) ==
    IF is_fatal_cdk_error(text)
      THEN Return(RecordAttempt(res, [NewAttempt(strategies[i].name)
                                          EXCEPT !.error = Str(text)]), i)
      ELSE Continue(res, i, [NewAttempt(strategies[i].name) EXCEPT !.error = Str(text)])

\* the loop body when the try block raises another exception
ExceptionStep(res, i, text) ==
    Continue(res, i, [NewAttempt(strategies[i].name) EXCEPT !.error = Str(text)])

TakeStep(step) ==
    /\ result' = step.result
    /\ pc' = step.pc
    /\ idx' = step.idx

\* the process exits with returncode 0, leaving cdk.out as `out`
SynthExitsZero(out) ==
    /\ InLoop
    /\ cdk_out' = out
    /\ TakeStep(ExitZeroStep(result, idx, out))
    /\ runs' = Append(runs, Run(strategies[idx].name, "exit0", "",
                                IF HasArtifacts(out) THEN glob_templates(out) ELSE {}))
    /\ UNCHANGED <<language, classifierVars, cleanerVars, detectorVars, batchVars>>

\* the process exits with a non-zero returncode and `stderr` on its stderr
SynthExitsNonZero(stderr) ==
    /\ InLoop
    /\ TakeStep(NonZeroStep(result, idx, stderr, language))
    /\ runs' = Append(runs, Run(strategies[idx].name, "nonzero", stderr, {}))
    /\ UNCHANGED <<language, cdk_out, classifierVars, cleanerVars, detectorVars, batchVars>>

\* subprocess.run raises TimeoutExpired after 300 seconds
SynthTimesOut ==
    /\ InLoop
    /\ TakeStep(TimeoutStep(result, idx))
    /\ runs' = Append(runs, Run(strategies[idx].name, "timeout", "", {}))
    /\ UNCHANGED <<language, cdk_out, classifierVars, cleanerVars, detectorVars, batchVars>>

\* the try block raises another exception, whose str() is `text`
SynthRaises(text) ==
    /\ InLoop
    /\ TakeStep(ExceptionStep(result, idx, text))
    /\ runs' = Append(runs, Run(strategies[idx].name, "exception", text, {}))
    /\ UNCHANGED <<language, cdk_out, classifierVars, cleanerVars, detectorVars, batchVars>>

\* the loop ran out of strategies: classify the last attempt's error and return
AllStrategiesFailed ==
    /\ pc = "loop"
    /\ idx > Len(strategies)
    /\ result' = ExhaustedResult(result, language)
    /\ pc' = "done"
    /\ UNCHANGED <<idx, language, cdk_out, runs, classifierVars, cleanerVars, detectorVars, batchVars>>

\* no template has been handed to the cleaner
CleanerIdle ==
    /\ keep_resource_metadata = FALSE
    /\ template = EmptyDict
    /\ original = EmptyDict
    /\ cleaned = None
    /\ recleaned = None
    /\ is_cdk = FALSE
    /\ cleaned_is_cdk = FALSE
    /\ done = {}

\* detect_cdk_environment has not been called
DetectorIdle ==
    /\ project = None
    /\ env_info = None
    /\ detect_pc = "idle"

\* process_cdk_files has not been called
BatchIdle ==
    /\ changed_cdk_files = <<>>
    /\ cdk_apps = <<>>
    /\ batch_pc = "idle"
    /\ cursor = 0
    /\ app_log = <<>>
    /\ sanitized_list = <<>>

\* the ladder, the classifier and the cleaner are not in use
LadderIdle ==
    /\ pc = "done"
    /\ idx = 1
    /\ result = InitialResult
    /\ language = "python"
    /\ cdk_out = NoDir
    /\ runs = <<>>

ClassifierIdle ==
    /\ error_msg = None
    /\ lang = "python"
    /\ diagnosis = None
    /\ fatal = FALSE
    /\ called = {}

\* the state after line 132, on a fresh checkout (cdk.out is the tool's
\* output directory: no run has created it yet)
Init ==
    /\ pc = "loop"
    /\ idx = 1
    /\ result = InitialResult
    /\ language \in Languages
    /\ cdk_out = NoDir
    /\ runs = <<>>
    /\ error_msg = None
    /\ lang = "python"
    /\ diagnosis = None
    /\ fatal = FALSE
    /\ called = {}
    /\ CleanerIdle
    /\ DetectorIdle
    /\ BatchIdle

Next ==
    \/ \E out \in CdkOutStates : SynthExitsZero(out)
    \/ \E stderr \in StderrTexts : SynthExitsNonZero(stderr)
    \/ SynthTimesOut
    \/ \E text \in ExceptionTexts : SynthRaises(text)
    \/ AllStrategiesFailed

Spec == Init /\ [][Next]_vars

\* a step of Next, seen through pc and idx: every action of Next moves the
\* for loop to its next strategy or returns, and one of them is enabled
\* exactly while pc = "loop"
LoopStep ==
    /\ pc = "loop"
    /\ pc' \in {"loop", "done"}
    /\ idx' \in {idx, idx + 1}
    /\ <<pc', idx'>> # <<pc, idx>>

\* every subprocess.run call ends (the process exits, the 300 s timeout
\* expires, or the launch raises), so the loop always takes its next step
FairSpec == Spec /\ WF_<<pc, idx>>(LoopStep)

TypeOK ==
    /\ pc \in {"loop", "done"}
    /\ idx \in 1..(Len(strategies) + 1)
    /\ result.success \in BOOLEAN
    /\ Len(result.attempts) <= Len(strategies)
    /\ cdk_out \in CdkOutStates

(***************************************************************************)
(* Properties of the fallback ladder.                                      *)
(***************************************************************************)
Returned == pc = "done"

Attempts == result.attempts

\* run k exited 0 and the glob found templates
RunSucceeded(k) == runs[k].outcome = "exit0" /\ runs[k].templates # {}

\* run k exited non-zero with a fatal marker on stderr
RunFatal(k) == runs[k].outcome = "nonzero" /\ runs[k].fatal

\* run k exited non-zero without a fatal marker on stderr, or timed out
RunRetryable(k) ==
    \/ runs[k].outcome = "nonzero" /\ ~runs[k].fatal
    \/ runs[k].outcome = "timeout"

\* C1: once a strategy succeeds the function has returned: the successful
\* run is the last subprocess run, no later strategy is run, and the
\* successful attempt is the last entry of result['attempts'].
C1_SuccessReturnsImmediately ==
    \A k \in 1..Len(runs) :
        RunSucceeded(k) =>
            /\ Returned
            /\ k = Len(runs)
            /\ Len(Attempts) = k
            /\ Attempts[k] = [strategy |-> strategies[k].name, success |-> TRUE, error |-> None]

C1_Witness ==
    /\ Returned
    /\ Len(runs) = 2
    /\ RunSucceeded(2)
    /\ result.attempts[2].success

\* C2: a non-zero exit of strategy k whose stderr matches a fatal marker
\* stops the ladder at once: success is false, there are exactly k attempt
\* records and no strategy after k is run.
C2_FatalStopsLadder ==
    \A k \in 1..Len(runs) :
        RunFatal(k) =>
            /\ Returned
            /\ ~result.success
            /\ Len(Attempts) = k
            /\ Len(runs) = k

C2_Witness ==
    /\ Returned
    /\ Len(runs) = 1
    /\ RunFatal(1)
    /\ Len(Attempts) = 1
    /\ ~result.success

\* C3: in every returned result, success implies a non-empty templates list
\* and no error, and failure implies an error diagnosis.
C3_ResultConsistent ==
    Returned =>
        /\ result.success => (result.templates # {} /\ result.error = None)
        /\ ~result.success => result.error # None

C3_Witness ==
    /\ Returned
    /\ result.success
    /\ result.templates # {}
    /\ Len(runs) = 3

\* C4: a success at the first strategy carries no warning; a success at any
\* other strategy carries exactly one warning, which names the strategy
\* used; strategy_used is the strategy that succeeded.
C4_FallbackWarning ==
    (Returned /\ result.success) =>
        LET k == Len(runs) IN
        /\ result.strategy_used = Str(strategies[k].name)
        /\ IF k = 1
             THEN result.warnings = << >>
             ELSE /\ Len(result.warnings) = 1
                  /\ Contains(result.warnings[1], "'" \o strategies[k].name \o "'")

\* a credential failure on strategy 1, then success on strategy 2
C4_Witness ==
    /\ Returned
    /\ result.success
    /\ Len(runs) = 2
    /\ runs[1].outcome = "nonzero"
    /\ classify_cdk_error(Str(runs[1].text), language).type = "aws_credentials"
    /\ result.strategy_used = Str("no-lookups")
    /\ Len(result.warnings) = 1

\* the attempts list holds a record of success or of a fatal failure
HasTerminalRecord ==
    /\ Attempts # << >>
    /\ \/ Attempts[Len(Attempts)].success
       \/ RunFatal(Len(runs))

\* C5: at every point the strategies recorded in result['attempts'] are a
\* prefix of the catalogue in catalogue order, one record per strategy run;
\* records are only appended, and none is appended after a record of success
\* or of a fatal failure.
C5_AttemptsFollowCatalogue ==
    /\ [](/\ Len(Attempts) <= Len(strategies)
          /\ Len(Attempts) = Len(runs)
          /\ \A k \in 1..Len(Attempts) : Attempts[k].strategy = strategies[k].name)
    /\ [][/\ Len(result.attempts') >= Len(Attempts)
          /\ SubSeq(result.attempts', 1, Len(Attempts)) = Attempts
          /\ HasTerminalRecord => result.attempts' = Attempts]_vars

C5_Witness ==
    /\ Len(Attempts) = Len(strategies)
    /\ \E k \in 1..Len(runs) : runs[k].outcome = "exception"
    /\ Attempts[Len(strategies)].strategy = "verbose"

\* cdk.out holds at least one *.template.json file
ArtifactsIn(dir) == dir.exists /\ \E f \in dir.files : EndsWith(f, ".template.json")

\* the step just taken is a run with this outcome
JustRan(outcome) ==
    /\ Len(runs') = Len(runs) + 1
    /\ runs'[Len(runs')].outcome = outcome

\* C6: a zero exit that leaves no template under cdk.out is not a success:
\* an unsuccessful attempt is recorded and the loop moves to the next
\* strategy; when it was the last strategy the request ends in failure.
C6_ZeroExitWithoutArtifacts ==
    /\ [][(JustRan("exit0") /\ ~ArtifactsIn(cdk_out')) =>
            /\ result.attempts' = Append(Attempts, [strategy |-> strategies[idx].name,
                                                    success  |-> FALSE,
                                                    error    |-> None])
            /\ ~result.success'
            /\ pc' = "loop"
            /\ idx' = idx + 1]_vars
    /\ []((/\ Returned
           /\ Len(runs) = Len(strategies)
           /\ runs[Len(runs)].outcome = "exit0"
           /\ ~ArtifactsIn(cdk_out)) => ~result.success)

C6_Witness ==
    /\ Len(runs) >= 2
    /\ runs[1].outcome = "exit0"
    /\ runs[1].templates = {}
    /\ ~Attempts[1].success

\* C7: a non-zero exit with a non-fatal stderr, or a timeout, appends an
\* unsuccessful attempt record (with the timeout marker after a timeout) and
\* the loop moves to the next strategy instead of returning.
C7_RetryableContinues ==
    /\ [][(\/ JustRan("timeout")
           \/ JustRan("nonzero") /\ ~runs'[Len(runs')].fatal) =>
            /\ Len(result.attempts') = Len(Attempts) + 1
            /\ result.attempts'[Len(Attempts) + 1].strategy = strategies[idx].name
            /\ ~result.attempts'[Len(Attempts) + 1].success
            /\ JustRan("timeout") =>
                   result.attempts'[Len(Attempts) + 1].error = Str("Timeout (>5 minutes)")
            /\ pc' = "loop"
            /\ idx' = idx + 1]_vars
    /\ [](\A k \in 1..Len(runs) :
            (RunRetryable(k) /\ k < Len(strategies) /\ Returned) => Len(runs) > k)

C7_Witness ==
    /\ Len(runs) = 3
    /\ runs[1].outcome = "timeout"
    /\ runs[2].outcome = "nonzero"
    /\ RunRetryable(2)
    /\ Attempts[1].error = Str("Timeout (>5 minutes)")

\* the diagnostic text a run produced, as a Python value
ProducedText(run) ==
    CASE run.outcome = "nonzero"   -> Str(run.text)
      [] run.outcome = "exception" -> Str(run.text)
      [] run.outcome = "timeout"   -> Str("Timeout (>5 minutes)")
      [] OTHER                     -> None

\* C8: when all four strategies fail without a fatal short-circuit, the
\* final diagnosis equals classify_cdk_error applied to the diagnostic text
\* the last strategy produced.
C8_LastDiagnosticClassified ==
    (/\ Returned
     /\ ~result.success
     /\ Len(runs) = Len(strategies)
     /\ ~RunFatal(Len(runs))) =>
        result.error = classify_cdk_error(ProducedText(runs[Len(runs)]), language)

\* C14: every failing request returns a diagnosis with a non-empty message
\* and at least one recommendation.
C14_FailureHasDiagnosis ==
    (Returned /\ ~result.success) =>
        /\ result.error # None
        /\ result.error.message # ""
        /\ Len(result.error.recommendations) >= 1

\* exhaustion after a last strategy that exited 0 without artifacts
C14_Witness ==
    /\ Returned
    /\ ~result.success
    /\ Len(runs) = Len(strategies)
    /\ runs[Len(runs)].outcome = "exit0"
    /\ result.error.type = "unknown"
    /\ Len(result.error.recommendations) = 1

\* C15: in every returned result the excerpt of each attempt record and the
\* technical excerpt of the diagnosis are at most 300 characters long.
C15_ExcerptsBounded ==
    Returned =>
        /\ \A k \in 1..Len(Attempts) :
               Attempts[k].error # None => Len(Attempts[k].error.str) <= DetailsLen
        /\ (result.error # None /\ "technical_details" \in DOMAIN result.error) =>
               Len(result.error.technical_details) <= DetailsLen

\* C28: every call returns; it makes at most four attempts; the result is
\* finalized once, as a success, as a fatal failure, or as an exhaustion with
\* four attempt records.
C28_ReturnsOnce ==
    /\ <>Returned
    /\ [](Len(Attempts) <= 4 /\ Len(runs) <= 4)
    /\ [](Returned =>
              \/ result.success /\ RunSucceeded(Len(runs))
              \/ ~result.success /\ RunFatal(Len(runs)) /\ result.error # None
              \/ /\ ~result.success
                 /\ ~RunFatal(Len(runs))
                 /\ Len(Attempts) = 4
                 /\ result.error # None)
    /\ [][/\ Returned => result' = result
          /\ (result'.success # result.success \/ result'.error # result.error) =>
                 (~Returned /\ pc' = "done")]_vars

\* an exhaustion: four timeouts, then the return
C28_Witness ==
    /\ Returned
    /\ ~result.success
    /\ Len(Attempts) = 4
    /\ \A k \in 1..Len(runs) : runs[k].outcome = "timeout"

\* C30: when the launch raises an exception other than a timeout, its text is
\* recorded as the attempt's error and the loop goes on to the next strategy,
\* whether or not the text holds a fatal marker.
C30_ExceptionNeverFatal ==
    [][JustRan("exception") =>
           /\ pc' = "loop"
           /\ idx' = idx + 1
           /\ Len(result.attempts') = Len(Attempts) + 1
           /\ result.attempts'[Len(result.attempts')].error
                  = Str(runs'[Len(runs')].text)
           /\ ~result.attempts'[Len(result.attempts')].success
           /\ result'.error = None
           /\ result'.success = result.success]_vars

\* an exception whose text holds a fatal marker, followed by the next strategy
C30_Witness ==
    /\ Len(runs) >= 2
    /\ runs[1].outcome = "exception"
    /\ runs[1].fatal
    /\ Attempts[1].error = Str(runs[1].text)
    /\ runs[2].strategy = "no-lookups"

(***************************************************************************)
(* The classifier on its own: classify_cdk_error and _is_fatal_cdk_error   *)
(* applied to one diagnostic text.                                         *)
(***************************************************************************)
\* the pieces diagnostic texts are concatenated from: every marker either
\* function searches for, in both cases of the timeout marker, and a filler
MarkerParts ==
    { "SyntaxError", "ModuleNotFoundError", "Cannot find module", "ENOENT",
      "No such file or directory", "cdk.json not found",
      "nodejs22.x", "E3030", "not authorized", "AccessDenied",
      "timeout", "Timeout" }

TextParts == MarkerParts \cup { " at app.py: " }

RECURSIVE TextsOf(_)
TextsOf(n) ==
    IF n = 0 THEN {""}
    ELSE LET shorter == TextsOf(n - 1)
         IN  shorter \cup {t \o part : t \in shorter, part \in TextParts}

DiagnosticTexts == TextsOf(MaxParts)

AllLanguages == {"python", "typescript", "unknown"}

ClassifierInit ==
    /\ pc = "done"
    /\ idx = 1
    /\ result = InitialResult
    /\ language = "python"
    /\ cdk_out = NoDir
    /\ runs = <<>>
    /\ error_msg \in {None} \cup {Str(t) : t \in DiagnosticTexts}
    /\ lang \in AllLanguages
    /\ diagnosis = None
    /\ fatal = FALSE
    /\ called = {}
    /\ CleanerIdle
    /\ DetectorIdle
    /\ BatchIdle

\* diagnosis = classify_cdk_error(error_msg, lang)
CallClassify ==
    /\ "classify_cdk_error" \notin called
    /\ diagnosis' = classify_cdk_error(error_msg, lang)
    /\ called' = called \cup {"classify_cdk_error"}
    /\ UNCHANGED <<ladderVars, error_msg, lang, fatal, cleanerVars, detectorVars, batchVars>>

\* fatal = _is_fatal_cdk_error(error_msg); the caller passes a str
CallIsFatal ==
    /\ "_is_fatal_cdk_error" \notin called
    /\ error_msg # None
    /\ fatal' = is_fatal_cdk_error(error_msg.str)
    /\ called' = called \cup {"_is_fatal_cdk_error"}
    /\ UNCHANGED <<ladderVars, error_msg, lang, diagnosis, cleanerVars, detectorVars, batchVars>>

ClassifierNext == CallClassify \/ CallIsFatal

ClassifierSpec == ClassifierInit /\ [][ClassifierNext]_vars

\* both functions have returned for error_msg
BothCalled == called = {"classify_cdk_error", "_is_fatal_cdk_error"}

(***************************************************************************)
(* Properties of the classifier.                                           *)
(***************************************************************************)
\* C9: a credential error is never fatal: on every text classify_cdk_error
\* puts in the credential category, _is_fatal_cdk_error returns false.
C9_CredentialNeverFatal ==
    (BothCalled /\ diagnosis.type = "aws_credentials") => ~fatal

\* C10 as stated: on every text that _is_fatal_cdk_error accepts,
\* classify_cdk_error matches a specific marker and does not fall through to
\* a generic category.
C10_FatalSubsetOfClassifier ==
    (BothCalled /\ fatal) => diagnosis.type \notin {"synthesis_error", "unknown"}

\* the fatal markers classify_cdk_error does not search for
UnclassifiedFatalMarkers ==
    {"SyntaxError", "ENOENT", "No such file or directory", "cdk.json not found"}

\* C10 amended: on every text that _is_fatal_cdk_error accepts, the
\* classifier never answers 'unknown'; a text with an unresolved-module
\* marker is classified by a specific marker; and the generic category is
\* returned only for texts holding a fatal marker the classifier does not
\* search for.
C10_FatalMarkersClassified ==
    (BothCalled /\ fatal) =>
        LET s == error_msg.str IN
        /\ diagnosis.type # "unknown"
        /\ (Contains(s, "ModuleNotFoundError") \/ Contains(s, "Cannot find module")) =>
               diagnosis.type \in {"missing_dependencies", "runtime_compatibility"}
        /\ diagnosis.type = "synthesis_error" =>
               \E marker \in UnclassifiedFatalMarkers : Contains(s, marker)

C10_Witness ==
    /\ BothCalled
    /\ fatal
    /\ diagnosis.type = "missing_dependencies"
    /\ Contains(error_msg.str, "Cannot find module")

\* classify_cdk_error has returned for a non-empty text
ClassifiedText ==
    /\ "classify_cdk_error" \in called
    /\ error_msg # None
    /\ error_msg.str # ""

\* the classifier's markers, by category, in the order of the claimed priority
MarkerPriority ==
    << [type |-> "runtime_compatibility", markers |-> {"nodejs22.x", "E3030"}],
       [type |-> "missing_dependencies",  markers |-> {"ModuleNotFoundError", "Cannot find module"}],
       [type |-> "aws_credentials",       markers |-> {"not authorized", "AccessDenied"}],
       [type |-> "timeout",               markers |-> {"timeout"}] >>

\* the text holds a marker of the k-th category (the timeout marker in any case)
MatchesCategory(s, k) ==
    \E marker \in MarkerPriority[k].markers :
        Contains(IF MarkerPriority[k].type = "timeout" THEN Lower(s) ELSE s, marker)

MatchedCategories(s) == {k \in 1..Len(MarkerPriority) : MatchesCategory(s, k)}

\* C11: for a non-empty text the category returned is that of the
\* highest-priority marker present (runtime, missing dependencies,
\* credential, timeout), and the generic category is returned exactly when
\* no marker matches.
C11_FirstMatchWins ==
    ClassifiedText =>
        LET hits == MatchedCategories(error_msg.str) IN
        IF hits = {}
          THEN diagnosis.type = "synthesis_error"
          ELSE diagnosis.type =
                   MarkerPriority[CHOOSE k \in hits : \A j \in hits : k <= j].type

\* a text with a credential marker and a missing-dependencies marker
C11_Witness ==
    /\ ClassifiedText
    /\ MatchedCategories(error_msg.str) = {2, 3}
    /\ diagnosis.type = "missing_dependencies"

HasModuleMarker(s) == Contains(s, "ModuleNotFoundError") \/ Contains(s, "Cannot find module")

HasRuntimeMarker(s) == Contains(s, "nodejs22.x") \/ Contains(s, "E3030")

HasCredentialMarker(s) == Contains(s, "not authorized") \/ Contains(s, "AccessDenied")

\* C12 as stated: every text with an unresolved-module marker is classified
\* missing_dependencies with user_fixable true.
C12_ModuleMarkerMissingDeps ==
    (ClassifiedText /\ HasModuleMarker(error_msg.str)) =>
        (diagnosis.type = "missing_dependencies" /\ diagnosis.user_fixable)

\* C12 amended: every text with an unresolved-module marker and no runtime
\* marker is classified missing_dependencies with user_fixable true.
C12_ModuleMarkerWithoutRuntime ==
    (/\ ClassifiedText
     /\ HasModuleMarker(error_msg.str)
     /\ ~HasRuntimeMarker(error_msg.str)) =>
        (diagnosis.type = "missing_dependencies" /\ diagnosis.user_fixable)

C12_Witness ==
    /\ ClassifiedText
    /\ HasModuleMarker(error_msg.str)
    /\ HasCredentialMarker(error_msg.str)
    /\ diagnosis.type = "missing_dependencies"
    /\ diagnosis.user_fixable

\* C13 as stated: every text with a permission-denied marker is classified
\* as a credential error with user_fixable false.
C13_CredentialMarkerNotFixable ==
    (ClassifiedText /\ HasCredentialMarker(error_msg.str)) =>
        (diagnosis.type = "aws_credentials" /\ ~diagnosis.user_fixable)

\* C13 amended: every text with a permission-denied marker and neither a
\* runtime nor an unresolved-module marker is classified as a credential
\* error with user_fixable false.
C13_CredentialMarkerAlone ==
    (/\ ClassifiedText
     /\ HasCredentialMarker(error_msg.str)
     /\ ~HasRuntimeMarker(error_msg.str)
     /\ ~HasModuleMarker(error_msg.str)) =>
        (diagnosis.type = "aws_credentials" /\ ~diagnosis.user_fixable)

\* a permission-denied text that also holds a fatal and a timeout marker
C13_Witness ==
    /\ ClassifiedText
    /\ Contains(error_msg.str, "not authorized")
    /\ Contains(error_msg.str, "imeout")
    /\ diagnosis.type = "aws_credentials"
    /\ ~diagnosis.user_fixable

(***************************************************************************)
(* The template cleaner (cdk_template_cleaner.py).                         *)
(*                                                                         *)
(* A template is a Python dict: its items in insertion order.  Section     *)
(* contents, resource definitions and Metadata blocks are dicts too; leaf  *)
(* values are str objects.                                                 *)
(***************************************************************************)
IsDict(v) == "items" \in DOMAIN v

\* the keys of d, in insertion order
Keys(d) == [i \in 1..Len(d.items) |-> d.items[i].k]

KeySet(d) == {d.items[i].k : i \in 1..Len(d.items)}

\* key in d
Has(d, key) == key \in KeySet(d)

\* d[key]
Get(d, key) == d.items[CHOOSE i \in 1..Len(d.items) : d.items[i].k = key].v

\* d.get(key, default)
GetOr(d, key, default) == IF Has(d, key) THEN Get(d, key) ELSE default

\* del d[key]
Del(d, key) == Dict(SelectSeq(d.items, LAMBDA e : e.k # key))

\* d[key] = value: a present key keeps its place, a new one goes last
Put(d, key, value) ==
    IF Has(d, key)
      THEN Dict([i \in 1..Len(d.items) |->
                    IF d.items[i].k = key THEN [k |-> key, v |-> value]
                                          ELSE d.items[i]])
      ELSE Dict(Append(d.items, [k |-> key, v |-> value]))

\* bool(v) of None, a str or a dict
Truthy(v) ==
    IF v = None THEN FALSE
    ELSE IF IsDict(v) THEN v.items # <<>>
    ELSE v.str # ""

CDK_METADATA_RESOURCE_TYPE == "AWS::CDK::Metadata"
CDK_BOOTSTRAP_PARAM == "BootstrapVersion"
CDK_METADATA_CONDITION == "CDKMetadataAvailable"
CDK_BOOTSTRAP_RULE == "CheckBootstrapVersion"
CDK_PATH_METADATA_KEY == "aws:cdk:path"

standard_sections ==
    << "AWSTemplateFormatVersion", "Description", "Metadata", "Parameters",
       "Mappings", "Conditions", "Transform", "Resources", "Outputs" >>

\* mutant: every key of the block goes
StripPath_All(metadata) == EmptyDict

\* lines 106-107: del metadata["aws:cdk:path"] when the key is there
StripPath(metadata) ==
    IF Has(metadata, CDK_PATH_METADATA_KEY)
      THEN Del(metadata, CDK_PATH_METADATA_KEY)
      ELSE metadata

\* mutant: the emptiness test comes before the path key is deleted
clean_resource_CheckFirst(resource_def, keep) ==
    IF Has(resource_def, "Metadata") /\ ~keep
      THEN LET metadata == Get(resource_def, "Metadata") IN
           IF ~Truthy(metadata)
             THEN Del(resource_def, "Metadata")
             ELSE Put(resource_def, "Metadata", StripPath(metadata))
      ELSE resource_def

\* mutant: the Metadata block is cleaned whatever the flag says
clean_resource_IgnoresKeep(resource_def, keep) ==
    IF Has(resource_def, "Metadata")
      THEN LET metadata == StripPath(Get(resource_def, "Metadata")) IN
           IF ~Truthy(metadata)
             THEN Del(resource_def, "Metadata")
             ELSE Put(resource_def, "Metadata", metadata)
      ELSE resource_def

\* lines 100-112: the copy of a kept resource, its Metadata block cleaned
clean_resource(resource_def, keep) ==
    IF Has(resource_def, "Metadata") /\ ~keep
      THEN LET metadata == StripPath(Get(resource_def, "Metadata")) IN
           IF ~Truthy(metadata)
             THEN Del(resource_def, "Metadata")
             ELSE Put(resource_def, "Metadata", metadata)
      ELSE resource_def

\* mutant: only the resource type decides
IsCdkResource_TypeOnly(resource_def) ==
    GetOr(resource_def, "Type", None) = Str(CDK_METADATA_RESOURCE_TYPE)

\* lines 92-97: the resources the loop skips
IsCdkResource(resource_def) ==
    \/ GetOr(resource_def, "Type", None) = Str(CDK_METADATA_RESOURCE_TYPE)
    \/ GetOr(resource_def, "Condition", None) = Str(CDK_METADATA_CONDITION)

Reverse(seq) == [i \in 1..Len(seq) |-> seq[Len(seq) + 1 - i]]

\* mutant: the kept resources come out in the opposite order
clean_resources_Reversed(resources, keep) ==
    LET kept == SelectSeq(resources.items, LAMBDA e : ~IsCdkResource(e.v)) IN
    Dict(Reverse([i \in 1..Len(kept) |->
                     [k |-> kept[i].k, v |-> clean_resource(kept[i].v, keep)]]))

\* _clean_resources: the kept resources, cleaned, in the order of the input
clean_resources(resources, keep) ==
    LET kept == SelectSeq(resources.items, LAMBDA e : ~IsCdkResource(e.v)) IN
    Dict([i \in 1..Len(kept) |->
             [k |-> kept[i].k, v |-> clean_resource(kept[i].v, keep)]])

\* lines 124-131: the parameters the loop skips
IsCdkParameter(param_name, param_def) ==
    \/ param_name = CDK_BOOTSTRAP_PARAM
    \/ /\ IsDict(param_def)
       /\ Contains(GetOr(param_def, "Description", Str("")).str, "[cdk:skip]")

\* mutant: only the skip marker removes a parameter
clean_parameters_KeepsBootstrap(parameters) ==
    Dict(SelectSeq(parameters.items,
                   LAMBDA e : ~(/\ IsDict(e.v)
                                /\ Contains(GetOr(e.v, "Description", Str("")).str,
                                            "[cdk:skip]"))))

\* _clean_parameters
clean_parameters(parameters) ==
    Dict(SelectSeq(parameters.items, LAMBDA e : ~IsCdkParameter(e.k, e.v)))

\* _clean_conditions
clean_conditions(conditions) ==
    Dict(SelectSeq(conditions.items, LAMBDA e : e.k # CDK_METADATA_CONDITION))

\* _process_section
process_section(section_name, content, keep) ==
    IF section_name = "Resources" THEN clean_resources(content, keep)
    ELSE IF section_name = "Parameters" THEN clean_parameters(content)
    ELSE IF section_name = "Conditions" THEN clean_conditions(content)
    ELSE IF section_name = "Rules" THEN None
    ELSE content

\* mutant: empty sections stay
DropEmptySections_Keep(d) == d

\* line 68: {k: v for k, v in cleaned.items() if v}
DropEmptySections(d) == Dict(SelectSeq(d.items, LAMBDA e : Truthy(e.v)))

\* lines 63-65: the standard sections of the template, processed, in the
\* order of standard_sections
CopyStandardSections(tpl, keep) ==
    LET present == SelectSeq(standard_sections, LAMBDA name : Has(tpl, name)) IN
    Dict([i \in 1..Len(present) |->
             [k |-> present[i],
              v |-> process_section(present[i], Get(tpl, present[i]), keep)]])

\* clean_template: the dict it returns
clean_template(tpl, keep) == DropEmptySections(CopyStandardSections(tpl, keep))

\* resource_def.copy() is shallow: the Metadata dict of a kept resource is
\* the caller's own, and line 107 deletes the path key from it
ResourceAfterClean(resource_def, keep) ==
    IF ~IsCdkResource(resource_def) /\ Has(resource_def, "Metadata") /\ ~keep
      THEN Put(resource_def, "Metadata", StripPath(Get(resource_def, "Metadata")))
      ELSE resource_def

\* clean_template: the argument as the call leaves it
TemplateAfterClean(tpl, keep) ==
    IF Has(tpl, "Resources")
      THEN LET resources == Get(tpl, "Resources") IN
           Put(tpl, "Resources",
               Dict([i \in 1..Len(resources.items) |->
                        [k |-> resources.items[i].k,
                         v |-> ResourceAfterClean(resources.items[i].v, keep)]]))
      ELSE tpl

\* mutant: a Rules section of any content marks the template
is_cdk_template_AnyRules(tpl) ==
    \/ \E i \in 1..Len(GetOr(tpl, "Resources", EmptyDict).items) :
           GetOr(GetOr(tpl, "Resources", EmptyDict).items[i].v, "Type", None)
               = Str(CDK_METADATA_RESOURCE_TYPE)
    \/ Has(GetOr(tpl, "Parameters", EmptyDict), CDK_BOOTSTRAP_PARAM)
    \/ Has(tpl, "Rules")

\* is_cdk_template
is_cdk_template(tpl) ==
    \/ \E i \in 1..Len(GetOr(tpl, "Resources", EmptyDict).items) :
           GetOr(GetOr(tpl, "Resources", EmptyDict).items[i].v, "Type", None)
               = Str(CDK_METADATA_RESOURCE_TYPE)
    \/ Has(GetOr(tpl, "Parameters", EmptyDict), CDK_BOOTSTRAP_PARAM)
    \/ Has(GetOr(tpl, "Rules", EmptyDict), CDK_BOOTSTRAP_RULE)

(***************************************************************************)
(* The cleaner on its own: the templates it is handed.                     *)
(***************************************************************************)
Item(key, value) == [k |-> key, v |-> value]

\* pool is a sequence of sets of items, one set per name: the item
\* sequences that take at most n names of pool[i..], in the pool's order
RECURSIVE Choices(_, _, _)
Choices(pool, i, n) ==
    IF i > Len(pool) \/ n = 0
      THEN { <<>> }
      ELSE Choices(pool, i + 1, n)
           \cup { <<e>> \o rest : e \in pool[i], rest \in Choices(pool, i + 1, n - 1) }

\* the dicts of at most n items of the pool, in the pool's order or the
\* opposite one
DictsOf(pool, n) ==
    { Dict(items) : items \in Choices(pool, 1, n) }
    \cup { Dict(Reverse(items)) : items \in Choices(pool, 1, n) }

Bucket(items) == Dict(<<Item("Type", Str("AWS::S3::Bucket"))>> \o items)

ResourcePool ==
    << { Item("CDKMetadata",
              Dict(<< Item("Type", Str(CDK_METADATA_RESOURCE_TYPE)),
                      Item("Metadata",
                           Dict(<<Item(CDK_PATH_METADATA_KEY, Str("App/CDKMetadata"))>>)),
                      Item("Condition", Str(CDK_METADATA_CONDITION)) >>)) },
       { Item("Bucket", Bucket(<<>>)),
         Item("Bucket",
              Bucket(<<Item("Metadata",
                            Dict(<<Item(CDK_PATH_METADATA_KEY, Str("App/Bucket"))>>))>>)),
         Item("Bucket",
              Bucket(<<Item("Metadata",
                            Dict(<< Item(CDK_PATH_METADATA_KEY, Str("App/Bucket")),
                                    Item("cfn_nag", Str("W35")) >>))>>)) },
       { Item("Probe",
              Dict(<< Item("Type", Str("AWS::SNS::Topic")),
                      Item("Condition", Str(CDK_METADATA_CONDITION)) >>)) },
       { Item("Logs", Bucket(<<Item("Metadata", EmptyDict)>>)) } >>

ParameterPool ==
    << { Item(CDK_BOOTSTRAP_PARAM,
              Dict(<< Item("Type", Str("AWS::SSM::Parameter::Value<String>")),
                      Item("Description", Str("Version of the CDK Bootstrap resources")) >>)) },
       { Item("Env", Dict(<< Item("Type", Str("String")),
                             Item("Description", Str("Environment name")) >>)),
         Item("Env", Str("String")) },
       { Item("Assets", Dict(<< Item("Type", Str("String")),
                                Item("Description", Str("Asset bucket [cdk:skip]")) >>)) } >>

ConditionPool ==
    << { Item(CDK_METADATA_CONDITION, Dict(<<Item("Fn::Equals", Str("af-south-1"))>>)) },
       { Item("IsProd", Dict(<<Item("Fn::Equals", Str("prod"))>>)) } >>

RulePool ==
    << { Item(CDK_BOOTSTRAP_RULE, Dict(<<Item("Assertions", Str("version >= 6"))>>)) },
       { Item("RegionRule", Dict(<<Item("Assertions", Str("eu-west-1"))>>)) } >>

\* the sections a template is made of, each with the contents it can have
SectionPool ==
    << { Item("AWSTemplateFormatVersion", Str("2010-09-09")) },
       { Item("Description", Str("")), Item("Description", Str("storage stack")) },
       { Item("Parameters", d) : d \in DictsOf(ParameterPool, MaxEntries) },
       { Item("Conditions", d) : d \in DictsOf(ConditionPool, MaxEntries) },
       { Item("Rules", d) : d \in DictsOf(RulePool, 1) },
       { Item("Resources", d) : d \in DictsOf(ResourcePool, MaxEntries) },
       { Item("Outputs", EmptyDict),
         Item("Outputs", Dict(<<Item("BucketName", Str("Bucket"))>>)) },
       { Item("Hooks", Dict(<<Item("Deploy", Str("AWS::CodeDeploy::BlueGreen"))>>)) } >>

Templates == DictsOf(SectionPool, MaxSections)

CleanerInit ==
    /\ pc = "done"
    /\ idx = 1
    /\ result = InitialResult
    /\ language = "python"
    /\ cdk_out = NoDir
    /\ runs = <<>>
    /\ error_msg = None
    /\ lang = "python"
    /\ diagnosis = None
    /\ fatal = FALSE
    /\ called = {}
    /\ keep_resource_metadata \in BOOLEAN
    /\ template \in Templates
    /\ original = template
    /\ cleaned = None
    /\ recleaned = None
    /\ is_cdk = FALSE
    /\ cleaned_is_cdk = FALSE
    /\ done = {}
    /\ DetectorIdle
    /\ BatchIdle

\* is_cdk = cleaner.is_cdk_template(template)
CallIsCdkTemplate ==
    /\ "is_cdk_template" \notin done
    /\ is_cdk' = is_cdk_template(template)
    /\ done' = done \cup {"is_cdk_template"}
    /\ UNCHANGED <<ladderVars, classifierVars, detectorVars, batchVars,
                   keep_resource_metadata,
                   template, original, cleaned, recleaned, cleaned_is_cdk>>

\* cleaned = cleaner.clean_template(template)
CallCleanTemplate ==
    /\ "clean_template" \notin done
    /\ cleaned' = clean_template(template, keep_resource_metadata)
    /\ template' = TemplateAfterClean(template, keep_resource_metadata)
    /\ done' = done \cup {"clean_template"}
    /\ UNCHANGED <<ladderVars, classifierVars, detectorVars, batchVars,
                   keep_resource_metadata,
                   original, recleaned, is_cdk, cleaned_is_cdk>>

\* recleaned = cleaner.clean_template(cleaned)
CallCleanAgain ==
    /\ "clean_template" \in done
    /\ "clean_again" \notin done
    /\ recleaned' = clean_template(cleaned, keep_resource_metadata)
    /\ cleaned' = TemplateAfterClean(cleaned, keep_resource_metadata)
    /\ done' = done \cup {"clean_again"}
    /\ UNCHANGED <<ladderVars, classifierVars, detectorVars, batchVars,
                   keep_resource_metadata,
                   template, original, is_cdk, cleaned_is_cdk>>

\* cleaned_is_cdk = cleaner.is_cdk_template(cleaned)
CallIsCdkTemplateOfCleaned ==
    /\ "clean_template" \in done
    /\ "is_cdk_template(cleaned)" \notin done
    /\ cleaned_is_cdk' = is_cdk_template(cleaned)
    /\ done' = done \cup {"is_cdk_template(cleaned)"}
    /\ UNCHANGED <<ladderVars, classifierVars, detectorVars, batchVars,
                   keep_resource_metadata,
                   template, original, cleaned, recleaned, is_cdk>>

CleanerNext ==
    \/ CallIsCdkTemplate
    \/ CallCleanTemplate
    \/ CallCleanAgain
    \/ CallIsCdkTemplateOfCleaned

CleanerSpec == CleanerInit /\ [][CleanerNext]_vars

(***************************************************************************)
(* Properties of the cleaner.                                              *)
(***************************************************************************)
Cleaned == "clean_template" \in done

CleanedTwice == "clean_again" \in done

FilteredSections == {"Resources", "Parameters", "Conditions"}

\* the logical names of a section that T and clean_template(T) both have
SurvivingNames(section) ==
    IF Has(original, section) /\ Has(cleaned, section)
      THEN KeySet(Get(original, section)) \cap KeySet(Get(cleaned, section))
      ELSE {}

\* C16: cleaning a cleaned template gives the cleaned template back, for
\* both values of keep_resource_metadata.
C16_Idempotent ==
    CleanedTwice =>
        /\ recleaned = cleaned
        /\ recleaned = clean_template(original, keep_resource_metadata)

\* a second cleaning of a template whose first cleaning stripped a resource's
\* Metadata block down to its other keys
C16_Witness ==
    /\ CleanedTwice
    /\ ~keep_resource_metadata
    /\ recleaned = cleaned
    /\ recleaned # original
    /\ Has(recleaned, "Resources")
    /\ \E name \in KeySet(Get(recleaned, "Resources")) :
           /\ Has(Get(Get(recleaned, "Resources"), name), "Metadata")
           /\ Get(Get(Get(recleaned, "Resources"), name), "Metadata")
                  # Get(Get(Get(original, "Resources"), name), "Metadata")

HasMetadataResource(tpl) ==
    /\ Has(tpl, "Resources")
    /\ \E name \in KeySet(Get(tpl, "Resources")) :
           /\ Has(Get(Get(tpl, "Resources"), name), "Type")
           /\ Get(Get(Get(tpl, "Resources"), name), "Type").str = "AWS::CDK::Metadata"

HasBootstrapParameter(tpl) ==
    Has(tpl, "Parameters") /\ "BootstrapVersion" \in KeySet(Get(tpl, "Parameters"))

HasBootstrapRule(tpl) ==
    Has(tpl, "Rules") /\ "CheckBootstrapVersion" \in KeySet(Get(tpl, "Rules"))

\* C17: is_cdk_template is true of every template with a resource of type
\* AWS::CDK::Metadata and false of every template with none of the three
\* markers.
C17_MarkersDecide ==
    "is_cdk_template" \in done =>
        /\ HasMetadataResource(original) => is_cdk
        /\ (/\ ~HasMetadataResource(original)
            /\ ~HasBootstrapParameter(original)
            /\ ~HasBootstrapRule(original)) => ~is_cdk

\* a template recognised by its metadata resource alone
C17_Witness ==
    /\ "is_cdk_template" \in done
    /\ is_cdk
    /\ HasMetadataResource(original)
    /\ ~HasBootstrapParameter(original)
    /\ ~HasBootstrapRule(original)

\* the names of a occur in b, in the same relative order
OrderedSubset(a, b) ==
    /\ \A i \in 1..Len(a) : \E j \in 1..Len(b) : b[j] = a[i]
    /\ \A i, j \in 1..Len(a) :
           i < j => (CHOOSE m \in 1..Len(b) : b[m] = a[i])
                        < (CHOOSE n \in 1..Len(b) : b[n] = a[j])

\* C18: the resource, parameter and condition names of the cleaned template
\* are names of the input, in the input's relative order.
C18_NoNewNames ==
    Cleaned =>
        \A section \in FilteredSections :
            Has(cleaned, section) =>
                /\ Has(original, section)
                /\ OrderedSubset(Keys(Get(cleaned, section)),
                                 Keys(Get(original, section)))

\* two resources kept in the input's order while the Parameters section lost
\* every name
C18_Witness ==
    /\ Cleaned
    /\ Has(cleaned, "Resources")
    /\ Keys(Get(cleaned, "Resources")) = <<"Logs", "Bucket">>
    /\ Has(original, "Parameters")
    /\ Len(Get(original, "Parameters").items) = MaxEntries
    /\ ~Has(cleaned, "Parameters")

\* C19 as stated: every definition that survives is the input's definition.
C19_SurvivorsUnchanged ==
    Cleaned =>
        \A section \in FilteredSections :
            \A name \in SurvivingNames(section) :
                Get(Get(cleaned, section), name) = Get(Get(original, section), name)

\* C19, amended: a surviving parameter or condition is the input's; a
\* surviving resource is the input's on every key but Metadata, and on
\* Metadata too when keep_resource_metadata is set or the block is absent;
\* otherwise its Metadata block is the input's without aws:cdk:path, and is
\* gone when nothing else was in it.
C19_SurvivorsUnchangedButMetadata ==
    Cleaned =>
        /\ \A section \in {"Parameters", "Conditions"} :
               \A name \in SurvivingNames(section) :
                   Get(Get(cleaned, section), name) = Get(Get(original, section), name)
        /\ \A name \in SurvivingNames("Resources") :
               LET before == Get(Get(original, "Resources"), name)
                   after  == Get(Get(cleaned, "Resources"), name)
               IN  /\ Del(after, "Metadata") = Del(before, "Metadata")
                   /\ (keep_resource_metadata \/ ~Has(before, "Metadata")) =>
                          after = before
                   /\ (~keep_resource_metadata /\ Has(before, "Metadata")) =>
                          LET rest == Del(Get(before, "Metadata"), "aws:cdk:path") IN
                          IF rest = EmptyDict
                            THEN ~Has(after, "Metadata")
                            ELSE /\ Has(after, "Metadata")
                                 /\ Get(after, "Metadata") = rest

\* a kept resource whose Metadata block lost its path key, next to a kept
\* parameter
C19_Witness ==
    /\ Cleaned
    /\ ~keep_resource_metadata
    /\ SurvivingNames("Parameters") # {}
    /\ \E name \in SurvivingNames("Resources") :
           /\ Has(Get(Get(original, "Resources"), name), "Metadata")
           /\ Has(Get(Get(Get(original, "Resources"), name), "Metadata"), "aws:cdk:path")
           /\ Get(Get(cleaned, "Resources"), name) # Get(Get(original, "Resources"), name)

StandardSectionNames == {standard_sections[i] : i \in 1..Len(standard_sections)}

\* C20: the top-level keys of the cleaned template are the recognised sections
\* of the input whose filtered content is non-empty; no other section and no
\* empty section is in it.
C20_StandardNonEmptySections ==
    Cleaned =>
        /\ KeySet(cleaned) \subseteq StandardSectionNames \cap KeySet(original)
        /\ \A i \in 1..Len(cleaned.items) : Truthy(cleaned.items[i].v)
        /\ KeySet(cleaned) =
               { name \in StandardSectionNames \cap KeySet(original) :
                     Truthy(process_section(name, Get(original, name),
                                            keep_resource_metadata)) }

\* a Resources section emptied by the filter and dropped, next to a section
\* that stays
C20_Witness ==
    /\ Cleaned
    /\ Has(original, "Resources")
    /\ Get(original, "Resources") # EmptyDict
    /\ ~Has(cleaned, "Resources")
    /\ KeySet(cleaned) = {"Outputs"}

ResourcesOf(tpl) == IF Has(tpl, "Resources") THEN Get(tpl, "Resources") ELSE EmptyDict

\* the resource is of the metadata type or is included under the metadata
\* condition
IsMetadataResource(resource_def) ==
    \/ Has(resource_def, "Type") /\ Get(resource_def, "Type").str = "AWS::CDK::Metadata"
    \/ /\ Has(resource_def, "Condition")
       /\ Get(resource_def, "Condition").str = "CDKMetadataAvailable"

\* C21: the resources of the cleaned template are the resources of the input
\* that neither have the metadata type nor are included under the metadata
\* condition: all of those are dropped, and no other is.
C21_ExactlyCdkResourcesDropped ==
    Cleaned =>
        KeySet(ResourcesOf(cleaned)) =
            { name \in KeySet(ResourcesOf(original)) :
                  ~IsMetadataResource(Get(ResourcesOf(original), name)) }

\* a resource under the metadata condition dropped next to a bucket that stays
C21_Witness ==
    /\ Cleaned
    /\ KeySet(ResourcesOf(original)) = {"Probe", "Bucket"}
    /\ KeySet(ResourcesOf(cleaned)) = {"Bucket"}

\* C22: a surviving resource with a Metadata block keeps the block without
\* its aws:cdk:path key, and loses the Metadata key when nothing is left,
\* when keep_resource_metadata is false; it keeps the block as it was when
\* keep_resource_metadata is true.
C22_OnlyPathKeyRemoved ==
    Cleaned =>
        \A name \in SurvivingNames("Resources") :
            LET before == Get(Get(original, "Resources"), name)
                after  == Get(Get(cleaned, "Resources"), name)
            IN  Has(before, "Metadata") =>
                    IF keep_resource_metadata
                      THEN /\ Has(after, "Metadata")
                           /\ Get(after, "Metadata") = Get(before, "Metadata")
                      ELSE LET block == Get(before, "Metadata")
                               kept  == { i \in 1..Len(block.items) :
                                              block.items[i].k # "aws:cdk:path" }
                           IN  IF kept = {}
                                 THEN ~Has(after, "Metadata")
                                 ELSE /\ Has(after, "Metadata")
                                      /\ Get(after, "Metadata").items
                                             = SelectSeq(block.items,
                                                   LAMBDA e : e.k # "aws:cdk:path")

\* a block of two keys that comes out with the other key alone
C22_Witness ==
    /\ Cleaned
    /\ ~keep_resource_metadata
    /\ \E name \in SurvivingNames("Resources") :
           /\ Has(Get(Get(original, "Resources"), name), "Metadata")
           /\ Len(Get(Get(Get(original, "Resources"), name), "Metadata").items) = 2
           /\ Has(Get(Get(cleaned, "Resources"), name), "Metadata")
           /\ Len(Get(Get(Get(cleaned, "Resources"), name), "Metadata").items) = 1

\* C26: after clean_template returns, the template it was handed equals its
\* value before the call.
C26_ArgumentUnchanged ==
    Cleaned => template = original

\* C27: the cleaned template has none of the markers is_cdk_template tests
\* for: is_cdk_template(clean_template(T)) is false.
C27_CleanedIsNotCdk ==
    "is_cdk_template(cleaned)" \in done =>
        /\ ~cleaned_is_cdk
        /\ ~HasMetadataResource(cleaned)
        /\ ~HasBootstrapParameter(cleaned)
        /\ ~Has(cleaned, "Rules")

\* a template recognised by its bootstrap parameter, whose cleaning is
\* non-empty and not recognised
C27_Witness ==
    /\ "is_cdk_template(cleaned)" \in done
    /\ "is_cdk_template" \in done
    /\ is_cdk
    /\ HasBootstrapParameter(original)
    /\ ~cleaned_is_cdk
    /\ cleaned # EmptyDict

(***************************************************************************)
(* Environment detection: detect_cdk_environment (cdk_synthesis_handler.py)*)
(* and the step of process_cdk_files that calls it.                        *)
(*                                                                         *)
(* The project root is modelled by the files the function looks at.  A     *)
(* file is absent, or raises when it is opened, read or parsed, or has a   *)
(* content: the parsed JSON value of package.json, the lines of            *)
(* requirements.txt.                                                       *)
(***************************************************************************)
Absent == [exists |-> FALSE, error |-> None]

\* the file exists; open(), the read or json.load raises with this text
Unreadable(msg) == [exists |-> TRUE, error |-> Str(msg)]

JsonFile(value) == [exists |-> TRUE, error |-> None, value |-> value]

TextFile(lines) == [exists |-> TRUE, error |-> None, lines |-> lines]

Whitespace == {" ", "\t", "\n"}

\* s.strip()
RECURSIVE LStrip(_)
LStrip(s) ==
    IF s # "" /\ SubSeq(s, 1, 1) \in Whitespace THEN LStrip(SubSeq(s, 2, Len(s))) ELSE s

RECURSIVE RStrip(_)
RStrip(s) ==
    IF s # "" /\ SubSeq(s, Len(s), Len(s)) \in Whitespace
      THEN RStrip(SubSeq(s, 1, Len(s) - 1))
      ELSE s

Strip(s) == LStrip(RStrip(s))

\* lines 40-49
InitialEnvInfo ==
    [ cdk_lib_version      |-> None,
      cdk_cli_version      |-> None,
      language             |-> None,
      has_package_lock     |-> FALSE,
      has_requirements_txt |-> FALSE,
      has_cdk_json         |-> FALSE,
      warnings             |-> << >>,
      predicted_issues     |-> << >> ]

\* lines 52-54
DetectLockFiles(env, prj) ==
    [env EXCEPT !.has_package_lock     = prj.package_lock,
                !.has_requirements_txt = prj.requirements_txt.exists,
                !.has_cdk_json         = prj.cdk_json]

\* the try block went through
Completed(env) == [env |-> env, exception |-> None]

\* the try block raised: env is what it had set before
Raised(env, msg) == [env |-> env, exception |-> Str(msg)]

\* lines 59-66: pkg.get('dependencies', {}).get('aws-cdk-lib', '')
ReadPackageJson(env, prj) ==
    LET file == prj.package_json IN
    IF ~file.exists THEN Completed(env)
    ELSE IF file.error # None THEN Raised(env, file.error.str)
    ELSE IF ~IsDict(file.value) THEN Raised(env, "'str' object has no attribute 'get'")
    ELSE LET dependencies == GetOr(file.value, "dependencies", EmptyDict) IN
         IF ~IsDict(dependencies)
           THEN Raised(env, "'str' object has no attribute 'get'")
           ELSE LET cdk_lib == GetOr(dependencies, "aws-cdk-lib", Str("")) IN
                IF Truthy(cdk_lib)
                  THEN Completed([env EXCEPT !.cdk_lib_version = cdk_lib,
                                             !.language = Str("javascript")])
                  ELSE Completed(env)

\* lines 72-76: the first line of the file naming aws-cdk-lib
ScanRequirements(env, lines) ==
    LET hits == { i \in 1..Len(lines) : Contains(lines[i], "aws-cdk-lib") } IN
    IF hits = {}
      THEN env
      ELSE LET first == CHOOSE i \in hits : \A j \in hits : i <= j IN
           [env EXCEPT !.cdk_lib_version = Str(Strip(lines[first])),
                       !.language = Str("python")]

\* mutant: requirements.txt is read whatever package.json gave
ReadRequirements_Always(env, prj) ==
    LET file == prj.requirements_txt IN
    IF env.has_requirements_txt
      THEN IF file.error # None
             THEN Raised(env, file.error.str)
             ELSE Completed(ScanRequirements(env, file.lines))
      ELSE Completed(env)

\* lines 69-76
ReadRequirements(env, prj) ==
    LET file == prj.requirements_txt IN
    IF ~Truthy(env.cdk_lib_version) /\ env.has_requirements_txt
      THEN IF file.error # None
             THEN Raised(env, file.error.str)
             ELSE Completed(ScanRequirements(env, file.lines))
      ELSE Completed(env)

\* lines 57-76: the try block
DetectVersion(env, prj) ==
    LET node == ReadPackageJson(env, prj) IN
    IF node.exception # None THEN node ELSE ReadRequirements(node.env, prj)

\* what detect_cdk_environment does: it returns env, or it raises
Returns(env) == [raised |-> FALSE, env_info |-> env]

Raises == [raised |-> TRUE, env_info |-> None]

\* mutant: the exception leaves the function
HandleException_Reraise(outcome) ==
    IF outcome.exception # None THEN Raises ELSE Returns(outcome.env)

\* lines 77-78: except Exception as e
HandleException(outcome) ==
    IF outcome.exception # None
      THEN Returns([outcome.env EXCEPT !.warnings =
                       Append(@, "Could not detect CDK version: " \o outcome.exception.str)])
      ELSE Returns(outcome.env)

\* mutant: the issue is reported with high severity
PredictIssues_High(env) ==
    IF ~env.has_package_lock /\ ~env.has_requirements_txt
      THEN [env EXCEPT !.predicted_issues =
               Append(@, [type     |-> "missing_lock_files",
                          severity |-> "high",
                          message  |-> "No lock files found - versions may not be pinned"])]
      ELSE env

\* lines 81-86
PredictIssues(env) ==
    IF ~env.has_package_lock /\ ~env.has_requirements_txt
      THEN [env EXCEPT !.predicted_issues =
               Append(@, [type     |-> "missing_lock_files",
                          severity |-> "medium",
                          message  |-> "No lock files found - versions may not be pinned"])]
      ELSE env

detect_cdk_environment(prj) ==
    LET outcome == HandleException(DetectVersion(DetectLockFiles(InitialEnvInfo, prj), prj)) IN
    IF outcome.raised THEN outcome ELSE Returns(PredictIssues(outcome.env_info))

PackageJsonFiles ==
    { Absent,
      Unreadable("Expecting value: line 1 column 1 (char 0)"),
      JsonFile(Dict(<<Item("name", Str("app"))>>)),
      JsonFile(Dict(<<Item("dependencies",
                           Dict(<<Item("aws-cdk-lib", Str("^2.100.0"))>>))>>)),
      JsonFile(Dict(<<Item("dependencies", Dict(<<Item("aws-cdk-lib", Str(""))>>))>>)),
      JsonFile(Dict(<<Item("devDependencies",
                           Dict(<<Item("aws-cdk-lib", Str("2.100.0"))>>))>>)),
      JsonFile(Dict(<<Item("dependencies", Str("none"))>>)) }

RequirementLines ==
    { "aws-cdk-lib==2.100.0\n", "constructs>=10.0.0\n", "  aws-cdk-lib>=2.0 \n" }

RECURSIVE SeqsUpTo(_, _)
SeqsUpTo(S, n) ==
    IF n = 0 THEN { <<>> }
    ELSE SeqsUpTo(S, n - 1)
         \cup { Append(q, x) : q \in { r \in SeqsUpTo(S, n - 1) : Len(r) = n - 1 }, x \in S }

RequirementsFiles ==
    { Absent, Unreadable("[Errno 13] Permission denied: 'requirements.txt'") }
    \cup { TextFile(lines) : lines \in SeqsUpTo(RequirementLines, MaxLines) }

Projects ==
    [ package_lock     : BOOLEAN,
      cdk_json         : BOOLEAN,
      package_json     : PackageJsonFiles,
      requirements_txt : RequirementsFiles ]

DetectorInit ==
    /\ LadderIdle
    /\ ClassifierIdle
    /\ CleanerIdle
    /\ BatchIdle
    /\ project \in Projects
    /\ env_info = None
    /\ detect_pc = "call"

\* entrypoint.py line 266: env_info = detect_cdk_environment(cdk_root_path)
CallDetect ==
    /\ detect_pc = "call"
    /\ LET outcome == detect_cdk_environment(project) IN
       /\ env_info' = outcome.env_info
       /\ detect_pc' = IF outcome.raised THEN "raised" ELSE "returned"
    /\ UNCHANGED <<ladderVars, classifierVars, cleanerVars, batchVars, project>>

\* entrypoint.py lines 268-276 and 457-459: after the call the body of the loop
\* goes on to install the dependencies; an exception takes it to the except
\* clause, which skips the root
CallerContinues ==
    /\ detect_pc \in {"returned", "raised"}
    /\ detect_pc' = IF detect_pc = "returned" THEN "install" ELSE "skipped"
    /\ UNCHANGED <<ladderVars, classifierVars, cleanerVars, batchVars, project, env_info>>

DetectorNext == CallDetect \/ CallerContinues

DetectorSpec == DetectorInit /\ [][DetectorNext]_vars

(***************************************************************************)
(* Properties of the detection.                                            *)
(***************************************************************************)
DetectReturned == detect_pc \in {"returned", "install"}

\* package.json is there and cannot be read as a manifest
PackageJsonFails ==
    /\ project.package_json.exists
    /\ \/ project.package_json.error # None
       \/ ~IsDict(project.package_json.value)
       \/ /\ Has(project.package_json.value, "dependencies")
          /\ ~IsDict(Get(project.package_json.value, "dependencies"))

\* package.json names a version of aws-cdk-lib under this key
DeclaresUnder(key) ==
    /\ project.package_json.exists
    /\ ~PackageJsonFails
    /\ Has(project.package_json.value, key)
    /\ Has(Get(project.package_json.value, key), "aws-cdk-lib")
    /\ Get(Get(project.package_json.value, key), "aws-cdk-lib").str # ""

RequirementsReadable ==
    project.requirements_txt.exists /\ project.requirements_txt.error = None

\* the lines of requirements.txt that name aws-cdk-lib
NamingLines ==
    IF RequirementsReadable
      THEN { i \in 1..Len(project.requirements_txt.lines) :
                 Contains(project.requirements_txt.lines[i], "aws-cdk-lib") }
      ELSE {}

\* requirements.txt is opened and the read fails
RequirementsFails ==
    /\ ~PackageJsonFails
    /\ ~DeclaresUnder("dependencies")
    /\ project.requirements_txt.exists
    /\ project.requirements_txt.error # None

\* C23: with no lock file and no manifest declaring aws-cdk-lib, the
\* descriptor has no cdk_lib_version and exactly one predicted issue, of type
\* missing_lock_files and severity medium.
C23_NoLockNoVersion ==
    (/\ DetectReturned
     /\ ~project.package_lock
     /\ ~project.requirements_txt.exists
     /\ ~DeclaresUnder("dependencies")
     /\ ~DeclaresUnder("devDependencies")) =>
        /\ env_info.cdk_lib_version = None
        /\ Len(env_info.predicted_issues) = 1
        /\ env_info.predicted_issues[1].type = "missing_lock_files"
        /\ env_info.predicted_issues[1].severity = "medium"

\* a root with a package.json that declares nothing, and nothing else
C23_Witness ==
    /\ DetectReturned
    /\ ~project.package_lock
    /\ ~project.requirements_txt.exists
    /\ project.package_json.exists
    /\ ~PackageJsonFails
    /\ ~DeclaresUnder("dependencies")
    /\ ~DeclaresUnder("devDependencies")
    /\ env_info.cdk_lib_version = None
    /\ Len(env_info.predicted_issues) = 1
    /\ env_info.warnings = << >>

\* C24: detect_cdk_environment never raises; a failure to read or parse
\* package.json or requirements.txt ends as a warning in the descriptor, with
\* version and language unknown, and the caller goes on.
C24_DetectionNeverRaises ==
    /\ [](detect_pc \notin {"raised", "skipped"})
    /\ []((DetectReturned /\ (PackageJsonFails \/ RequirementsFails)) =>
              /\ Len(env_info.warnings) = 1
              /\ env_info.cdk_lib_version = None
              /\ env_info.language = None)
    /\ []((DetectReturned /\ ~PackageJsonFails /\ ~RequirementsFails) =>
              env_info.warnings = << >>)
    /\ [][detect_pc = "returned" => detect_pc' = "install"]_vars

\* the caller installing dependencies after a detection that could not parse
\* package.json
C24_Witness ==
    /\ detect_pc = "install"
    /\ PackageJsonFails
    /\ project.package_json.error # None
    /\ Len(env_info.warnings) = 1
    /\ env_info.language = None

\* C25 as stated: package.json declaring aws-cdk-lib gives javascript;
\* otherwise a requirements.txt naming aws-cdk-lib gives python, with the
\* first such line as the version.
C25_ManifestPriority ==
    DetectReturned =>
        IF DeclaresUnder("dependencies")
          THEN /\ env_info.language = Str("javascript")
               /\ env_info.cdk_lib_version
                      = Get(Get(project.package_json.value, "dependencies"), "aws-cdk-lib")
          ELSE NamingLines # {} =>
                   /\ env_info.language = Str("python")
                   /\ env_info.cdk_lib_version =
                          Str(Strip(project.requirements_txt.lines[
                                  CHOOSE i \in NamingLines : \A j \in NamingLines : i <= j]))

\* C25, amended: the same, provided that reading package.json did not fail;
\* when it failed requirements.txt is not consulted and language and version
\* stay unknown.
C25_ManifestPriorityUnlessFailure ==
    DetectReturned =>
        IF DeclaresUnder("dependencies")
          THEN /\ env_info.language = Str("javascript")
               /\ env_info.cdk_lib_version
                      = Get(Get(project.package_json.value, "dependencies"), "aws-cdk-lib")
          ELSE IF PackageJsonFails
                 THEN /\ env_info.language = None
                      /\ env_info.cdk_lib_version = None
                 ELSE NamingLines # {} =>
                          /\ env_info.language = Str("python")
                          /\ env_info.cdk_lib_version =
                                 Str(Strip(project.requirements_txt.lines[
                                         CHOOSE i \in NamingLines : \A j \in NamingLines : i <= j]))

\* python found from the second line of requirements.txt, next to a
\* package.json that declares nothing
C25_Witness ==
    /\ DetectReturned
    /\ project.package_json.exists
    /\ ~PackageJsonFails
    /\ ~DeclaresUnder("dependencies")
    /\ NamingLines = {2}
    /\ env_info.language = Str("python")
    /\ env_info.cdk_lib_version = Str("aws-cdk-lib>=2.0")

(***************************************************************************)
(* The batch: process_cdk_files (entrypoint.py).                           *)
(*                                                                         *)
(* The repository is modelled by what is_cdk_file answers for each changed *)
(* file; the processing of one root by how it ends: an exception before    *)
(* the synthesis, a failed synthesis, or a successful one followed by the  *)
(* cleaning and sanitizing of each template.                               *)
(***************************************************************************)
\* is_cdk_file(file_path) for the files of the repository
is_cdk_file(file_path) ==
    CASE file_path = "app1/stack.py" ->
             [is_cdk |-> TRUE, cdk_root |-> "app1", language |-> "python"]
      [] file_path = "app1/app.py" ->
             [is_cdk |-> TRUE, cdk_root |-> "app1", language |-> "python"]
      [] file_path = "app2/lib/stack.ts" ->
             [is_cdk |-> TRUE, cdk_root |-> "app2", language |-> "typescript"]
      [] OTHER ->
             [is_cdk |-> FALSE, cdk_root |-> "", language |-> ""]

RepositoryFiles == {"app1/stack.py", "app1/app.py", "app2/lib/stack.ts", "docs/conf.py"}

\* the lists of at most n distinct files
RECURSIVE FileLists(_)
FileLists(n) ==
    IF n = 0 THEN { <<>> }
    ELSE FileLists(n - 1)
         \cup { Append(q, f) : q \in { r \in FileLists(n - 1) : Len(r) = n - 1 },
                               f \in RepositoryFiles }

ChangedFileLists ==
    { q \in FileLists(MaxFiles) : \A i, j \in 1..Len(q) : i # j => q[i] # q[j] }

\* lines 218-233: the body of the first loop
CollectStep(apps, file_path) ==
    LET found == is_cdk_file(file_path) IN
    IF found.is_cdk
      THEN LET known == IF Has(apps, found.cdk_root)
                          THEN apps
                          ELSE Put(apps, found.cdk_root,
                                   [language |-> found.language, files |-> << >>])
               app   == Get(known, found.cdk_root)
           IN  Put(known, found.cdk_root, [app EXCEPT !.files = Append(@, file_path)])
      ELSE apps

\* the templates a successful synthesis returns
SynthTemplates ==
    { [i \in 1..n |-> "Stack" \o Repeat("A", i) \o ".template.json"] : n \in 1..MaxStacks }

\* how the body of the template loop ends for one template: the load raises
\* (line 429), the sanitizer accepts the cleaned template (line 447), the
\* sanitizer rejects it (line 451), or the sanitizer raises (line 453)
TemplateOutcomes == {"load_raises", "sanitized", "rejected", "sanitize_raises"}

\* lines 422-455: the entries the template loop appends
RECURSIVE AddedEntries(_, _)
AddedEntries(templates, outcomes) ==
    IF templates = << >> THEN << >>
    ELSE (IF Head(outcomes) = "sanitized"
            THEN << <<"cdk_" \o Head(templates), Head(templates)>> >>
            ELSE << >>)
         \o AddedEntries(Tail(templates), Tail(outcomes))

\* line 433: the templates handed to clean_template
CleanedTemplates(templates, outcomes) ==
    SelectSeq(templates,
              LAMBDA t : \E i \in 1..Len(templates) :
                             templates[i] = t /\ outcomes[i] # "load_raises")

\* mutant: the batch ends at the first root that is not synthesized
NextRoot_Abort(i) == [batch_pc |-> "done", cursor |-> i]

\* `continue`, or the end of the loop body: on to the next root
NextRoot(i) == [batch_pc |-> "process", cursor |-> i + 1]

BatchInit ==
    /\ LadderIdle
    /\ ClassifierIdle
    /\ CleanerIdle
    /\ DetectorIdle
    /\ changed_cdk_files \in ChangedFileLists
    /\ cdk_apps = EmptyDict
    /\ batch_pc = "start"
    /\ cursor = 0
    /\ app_log = << >>
    /\ sanitized_list = << >>

InProcessLoop == batch_pc = "process" /\ cursor <= Len(cdk_apps.items)

\* lines 203-215: an empty list returns at once
EnterBatch ==
    /\ batch_pc = "start"
    /\ IF changed_cdk_files = << >>
         THEN batch_pc' = "done" /\ cursor' = cursor
         ELSE batch_pc' = "collect" /\ cursor' = 1
    /\ UNCHANGED <<ladderVars, classifierVars, cleanerVars, detectorVars,
                   changed_cdk_files, cdk_apps, app_log, sanitized_list>>

\* lines 215-236: one iteration of the loop over the changed files
CollectFile ==
    /\ batch_pc = "collect"
    /\ cursor <= Len(changed_cdk_files)
    /\ cdk_apps' = CollectStep(cdk_apps, changed_cdk_files[cursor])
    /\ cursor' = cursor + 1
    /\ UNCHANGED <<ladderVars, classifierVars, cleanerVars, detectorVars,
                   changed_cdk_files, batch_pc, app_log, sanitized_list>>

\* lines 238-249: no root found returns; otherwise the second loop starts
CollectDone ==
    /\ batch_pc = "collect"
    /\ cursor > Len(changed_cdk_files)
    /\ IF cdk_apps = EmptyDict
         THEN batch_pc' = "done" /\ cursor' = cursor
         ELSE batch_pc' = "process" /\ cursor' = 1
    /\ UNCHANGED <<ladderVars, classifierVars, cleanerVars, detectorVars,
                   changed_cdk_files, cdk_apps, app_log, sanitized_list>>

LogEntry(root, outcome, cleaned_names, added) ==
    [root |-> root, outcome |-> outcome, cleaned |-> cleaned_names, added |-> added]

GoTo(step) == batch_pc' = step.batch_pc /\ cursor' = step.cursor

\* lines 258-376 raise (resolve, detection, an install command that cannot
\* be launched): the except clause of lines 457-459 skips the root
RootRaisesBeforeSynth ==
    /\ InProcessLoop
    /\ app_log' = Append(app_log, LogEntry(cdk_apps.items[cursor].k, "exception", << >>, << >>))
    /\ GoTo(NextRoot(cursor))
    /\ UNCHANGED <<ladderVars, classifierVars, cleanerVars, detectorVars,
                   changed_cdk_files, cdk_apps, sanitized_list>>

\* lines 378-409: safe_cdk_synth_with_fallbacks returns success == False
RootSynthFails ==
    /\ InProcessLoop
    /\ app_log' = Append(app_log, LogEntry(cdk_apps.items[cursor].k, "synth_failed", << >>, << >>))
    /\ GoTo(NextRoot(cursor))
    /\ UNCHANGED <<ladderVars, classifierVars, cleanerVars, detectorVars,
                   changed_cdk_files, cdk_apps, sanitized_list>>

\* lines 378 and 418-455: the synthesis succeeds and each template goes
\* through the template loop
RootSynthSucceeds(templates, outcomes) ==
    /\ InProcessLoop
    /\ app_log' = Append(app_log,
                         LogEntry(cdk_apps.items[cursor].k, "synth_ok",
                                  CleanedTemplates(templates, outcomes),
                                  AddedEntries(templates, outcomes)))
    /\ sanitized_list' = sanitized_list \o AddedEntries(templates, outcomes)
    /\ GoTo(NextRoot(cursor))
    /\ UNCHANGED <<ladderVars, classifierVars, cleanerVars, detectorVars,
                   changed_cdk_files, cdk_apps>>

\* line 469: return sanitized_list
ReturnBatch ==
    /\ batch_pc = "process"
    /\ cursor > Len(cdk_apps.items)
    /\ batch_pc' = "done"
    /\ UNCHANGED <<ladderVars, classifierVars, cleanerVars, detectorVars,
                   changed_cdk_files, cdk_apps, cursor, app_log, sanitized_list>>

BatchNext ==
    \/ EnterBatch
    \/ CollectFile
    \/ CollectDone
    \/ RootRaisesBeforeSynth
    \/ RootSynthFails
    \/ \E templates \in SynthTemplates :
           \E outcomes \in [1..Len(templates) -> TemplateOutcomes] :
               RootSynthSucceeds(templates, outcomes)
    \/ ReturnBatch

BatchSpec == BatchInit /\ [][BatchNext]_vars

(***************************************************************************)
(* Properties of the batch.                                                *)
(***************************************************************************)
BatchReturned == batch_pc = "done"

\* the roots of the changed files
RootsOfChangedFiles ==
    { is_cdk_file(changed_cdk_files[i]).cdk_root :
          i \in { j \in 1..Len(changed_cdk_files) : is_cdk_file(changed_cdk_files[j]).is_cdk } }

RECURSIVE Flatten(_)
Flatten(seqs) == IF seqs = << >> THEN << >> ELSE Head(seqs) \o Flatten(Tail(seqs))

\* C29: each root of the changed files is synthesized at most once, however
\* many files map to it; a root that fails or raises does not end the batch:
\* when it returns every root has been processed; templates are cleaned and
\* added for successfully synthesized roots only.
C29_BatchIsolation ==
    /\ \A i, j \in 1..Len(app_log) : app_log[i].root = app_log[j].root => i = j
    /\ \A i \in 1..Len(app_log) :
           /\ app_log[i].root \in RootsOfChangedFiles
           /\ app_log[i].outcome # "synth_ok" =>
                  app_log[i].cleaned = << >> /\ app_log[i].added = << >>
    /\ sanitized_list = Flatten([i \in 1..Len(app_log) |-> app_log[i].added])
    /\ BatchReturned =>
           /\ { app_log[i].root : i \in 1..Len(app_log) } = RootsOfChangedFiles
           /\ [i \in 1..Len(app_log) |-> app_log[i].root] = Keys(cdk_apps)

\* two files of one root, whose synthesis fails, and a second root that is
\* synthesized and added afterwards
C29_Witness ==
    /\ BatchReturned
    /\ Len(app_log) = 2
    /\ Len(Get(cdk_apps, app_log[1].root).files) = 2
    /\ app_log[1].outcome = "synth_failed"
    /\ app_log[2].outcome = "synth_ok"
    /\ sanitized_list # << >>

====
